---- MODULE Spec2Model ----
(***************************************************************************)
(* Stat-collector pipeline of something-something-git-stats (forora).      *)
(* A driver feeds every commit to each registered collector (process) and, *)
(* when the stream ends, lets each collector write into the view model     *)
(* (update).  Rust Strings are sequences of one-character strings, so that *)
(* is_empty, to_string and String::cmp are computed, not assumed.          *)
(***************************************************************************)
EXTENDS Integers, Sequences, FiniteSets, TLC

\* Longest commit stream the driver feeds.
MaxCommits == 3

VARIABLES
    registered,            \* Vec<Box<dyn GitStat>>: names of the collectors of this run
    fed,                   \* commits handed to process so far, in supply order
    upd,                   \* number of registered collectors whose update has run
    summary,               \* SummaryStatsCollector.summary
    total_commits_by_day,  \* TotalCommitsByDayCollector.total_commits_by_day
    total_lines_by_day,    \* TotalLinesByDayCollector.total_lines_by_day
    total_files_by_day,    \* TotalFilesByDayCollector.total_files_by_day
    message,               \* MessageStatsCollector
    punchcard,             \* PunchCardCollector.punchcard
    data,                  \* CommitsByFileExtension.data
    viewmodel,             \* GitStatsViewModel
    exported               \* last GitStatsJsonViewModelItem returned

vars == <<registered, fed, upd, summary, total_commits_by_day, total_lines_by_day,
          total_files_by_day, message, punchcard, data, viewmodel, exported>>

----------------------------------------------------------------------------
\* Strings

DigitChars == <<"0", "1", "2", "3", "4", "5", "6", "7", "8", "9">>

Digit(d) == DigitChars[d + 1]

\* i32::to_string for a non-negative value
RECURSIVE to_string(_)
to_string(n) == IF n < 10 THEN <<Digit(n)>> ELSE to_string(n \div 10) \o <<Digit(n % 10)>>

Pad2(n) == <<Digit(n \div 10), Digit(n % 10)>>

\* byte value of the characters that occur in day keys
Byte(ch) ==
    IF ch = "-" THEN 45
    ELSE (CHOOSE d \in 0..9 : DigitChars[d + 1] = ch) + 48

\* String::cmp(a, b) = Less or Equal: bytewise lexicographic order
RECURSIVE StrLeq(_, _)
StrLeq(a, b) ==
    IF a = <<>> THEN TRUE
    ELSE IF b = <<>> THEN FALSE
    ELSE IF Byte(Head(a)) # Byte(Head(b)) THEN Byte(Head(a)) < Byte(Head(b))
    ELSE StrLeq(Tail(a), Tail(b))

StrLess(a, b) == a # b /\ StrLeq(a, b)

\* ByteSize(n).to_string() for n below one kilobyte
ByteSize_to_string(n) == to_string(n) \o <<" ", "B">>

----------------------------------------------------------------------------
\* Commit records.  A date is a day of the year 2023 and an hour of that day.

Month(d) == IF d.yday <= 31 THEN 1 ELSE 2

DayOfMonth(d) == IF d.yday <= 31 THEN d.yday ELSE d.yday - 31

\* chrono: date.weekday().num_days_from_sunday(); 1 January 2023 is a Sunday
num_days_from_sunday(d) == (d.yday - 1) % 7

\* chrono: date.hour()
hour(d) == d.hour

DatePart(d) == <<"2", "0", "2", "3", "-">> \o Pad2(Month(d)) \o <<"-">> \o Pad2(DayOfMonth(d))

\* chrono: date.to_string(), "2023-01-09 23:00:00 +00:00"
date_to_string(d) ==
    DatePart(d) \o <<" ">> \o Pad2(d.hour)
        \o <<":", "0", "0", ":", "0", "0", " ", "+", "0", "0", ":", "0", "0">>

\* GitCommit::day_key: the date truncated to the day
day_key(c) == DatePart(c.date)

\* GitCommit::hour_key_by_weekday: composite weekday+hour key
hour_key_by_weekday(c) ==
    to_string(num_days_from_sunday(c.date)) \o <<"-">> \o to_string(hour(c.date))

\* iter().sum() over a sequence of integers
RECURSIVE SumSeq(_)
SumSeq(s) == IF s = <<>> THEN 0 ELSE Head(s) + SumSeq(Tail(s))

total_lines_added(c) ==
    SumSeq([i \in 1..Len(c.line_stats) |-> c.line_stats[i].lines_added])

total_lines_deleted(c) ==
    SumSeq([i \in 1..Len(c.line_stats) |-> c.line_stats[i].lines_deleted])

\* number of file operations of the commit of one kind
CountOperations(c, kind) ==
    Cardinality({i \in 1..Len(c.file_operations) : c.file_operations[i].operation = kind})

total_files_added(c) == CountOperations(c, "Added")
total_files_modified(c) == CountOperations(c, "Modified")
total_files_deleted(c) == CountOperations(c, "Deleted")
total_files_renamed(c) == CountOperations(c, "Renamed")

\* message.len()
total_message_size(c) == Len(c.message)

\* message.lines().count(): a trailing line feed ends the last line
RECURSIVE CountLines(_, _)
CountLines(m, open) ==
    IF m = <<>> THEN (IF open THEN 1 ELSE 0)
    ELSE IF Head(m) = "\n" THEN 1 + CountLines(Tail(m), FALSE)
    ELSE CountLines(Tail(m), TRUE)

total_message_lines(c) == CountLines(c.message, FALSE)

----------------------------------------------------------------------------
\* Input domains

Authors == { <<>>, <<"J", "e", "f", "f">>, <<"A", "l", "a", "n">> }

Day9 == [yday |-> 9, hour |-> 9]
Day9Late == [yday |-> 9, hour |-> 23]
Day10 == [yday |-> 10, hour |-> 9]
Day16 == [yday |-> 16, hour |-> 9]
Feb1 == [yday |-> 32, hour |-> 0]

Dates == {Day9, Day9Late, Day10, Day16, Feb1}

Messages ==
    { <<>>,
      <<"a">>,
      <<"a", "b", "\n">>,
      <<"a", "\n", "b", "c", "d">>,
      <<"a", "\n", "\n", "b">> }

LineStat(a, d) == [lines_added |-> a, lines_deleted |-> d]

LineStatsChoices ==
    { <<LineStat(10, 0)>>, <<LineStat(5, 2), LineStat(0, 3)>> }

FileOperation(f, e, o) == [file |-> f, file_extension |-> e, operation |-> o]

ExtRs == <<"r", "s">>
ExtMd == <<"m", "d">>

FileOperationsChoices ==
    { <<>>,
      <<FileOperation("a.rs", ExtRs, "Added")>>,
      <<FileOperation("a.rs", ExtRs, "Modified"), FileOperation("b.rs", ExtRs, "Added")>>,
      <<FileOperation("b.md", ExtMd, "Deleted"), FileOperation("c.rs", ExtRs, "Renamed")>>,
      <<FileOperation("Makefile", <<>>, "Modified")>> }

\* GitCommit::default()
DefaultCommit ==
    [author |-> <<>>, date |-> Day9, message |-> <<>>,
     line_stats |-> <<>>, file_operations |-> <<>>]

----------------------------------------------------------------------------
\* HashMap helpers.  A HashMap is a function whose DOMAIN is its key set.

\* HashMap::entry(k).or_insert(v): the map with k present
or_insert(m, k, v) ==
    IF k \in DOMAIN m THEN m
    ELSE [x \in DOMAIN m \cup {k} |-> IF x = k THEN v ELSE m[x]]

\* The orders in which iterating a HashMap can yield its keys
IterationOrders(m) ==
    { o \in [1..Cardinality(DOMAIN m) -> DOMAIN m] :
        \A i, j \in DOMAIN o : o[i] = o[j] => i = j }

\* Vec::sort_by(|a, b| a.key.cmp(&b.key)): a stable sort by key
RECURSIVE InsertByKey(_, _)
InsertByKey(sorted, row) ==
    IF sorted = <<>> THEN <<row>>
    ELSE IF StrLeq(Head(sorted).key, row.key)
         THEN <<Head(sorted)>> \o InsertByKey(Tail(sorted), row)
         ELSE <<row>> \o sorted

RECURSIVE sort_by_key(_)
sort_by_key(rows) ==
    IF rows = <<>> THEN <<>>
    ELSE InsertByKey(sort_by_key(SubSeq(rows, 1, Len(rows) - 1)), rows[Len(rows)])

----------------------------------------------------------------------------
\* SummaryStatsCollector

SummaryStats_default ==
    [commit_count |-> 0, date_first_commit |-> <<>>, first_committer |-> <<>>,
     total_lines_added |-> 0, total_lines_deleted |-> 0]

\* faulty variant: the count is raised only inside the first-commit branch
SummaryStatsCollector_process_count_first(s, c) ==
    [commit_count |-> IF s.date_first_commit = <<>> THEN s.commit_count + 1 ELSE s.commit_count,
     date_first_commit |->
        IF s.date_first_commit = <<>> THEN date_to_string(c.date) ELSE s.date_first_commit,
     first_committer |->
        IF s.first_committer = <<>> THEN c.author ELSE s.first_committer,
     total_lines_added |-> s.total_lines_added + total_lines_added(c),
     total_lines_deleted |-> s.total_lines_deleted + total_lines_deleted(c)]

\* faulty variant: the line totals are assigned, not accumulated
SummaryStatsCollector_process_assign(s, c) ==
    [commit_count |-> s.commit_count + 1,
     date_first_commit |->
        IF s.date_first_commit = <<>> THEN date_to_string(c.date) ELSE s.date_first_commit,
     first_committer |->
        IF s.first_committer = <<>> THEN c.author ELSE s.first_committer,
     total_lines_added |-> total_lines_added(c),
     total_lines_deleted |-> total_lines_deleted(c)]

SummaryStatsCollector_process(s, c) ==
    [commit_count |-> s.commit_count + 1,
     date_first_commit |->
        IF s.date_first_commit = <<>> THEN date_to_string(c.date) ELSE s.date_first_commit,
     first_committer |->
        IF s.first_committer = <<>> THEN c.author ELSE s.first_committer,
     total_lines_added |-> s.total_lines_added + total_lines_added(c),
     total_lines_deleted |-> s.total_lines_deleted + total_lines_deleted(c)]

SummaryViewModel(n, v) == [name |-> n, value |-> v]

\* faulty variant: the row of the deleted lines is not pushed
SummaryStatsCollector_rows_short(s) ==
    << SummaryViewModel("First committer", s.first_committer),
       SummaryViewModel("Date of first commit", s.date_first_commit),
       SummaryViewModel("Number of commits_collection", to_string(s.commit_count)),
       SummaryViewModel("Total lines_collection added", to_string(s.total_lines_added)) >>

\* the rows SummaryStatsCollector::update pushes
SummaryStatsCollector_rows(s) ==
    << SummaryViewModel("First committer", s.first_committer),
       SummaryViewModel("Date of first commit", s.date_first_commit),
       SummaryViewModel("Number of commits_collection", to_string(s.commit_count)),
       SummaryViewModel("Total lines_collection added", to_string(s.total_lines_added)),
       SummaryViewModel("Total lines_collection deleted", to_string(s.total_lines_deleted)) >>

----------------------------------------------------------------------------
\* Day-keyed collectors

EmptyMap == [k \in {} |-> 0]

TotalCommitsByDayCollector_process(m, c) ==
    LET e == or_insert(m, day_key(c), 0)
    IN  [e EXCEPT ![day_key(c)] = @ + 1]

TotalCommitsByDayCollector_rows(m, order) ==
    [i \in 1..Len(order) |-> [key |-> order[i], value |-> m[order[i]]]]

\* faulty variant: insert instead of entry().or_insert(): the day's entry starts again
TotalLinesByDayCollector_process_insert(m, c) ==
    [x \in DOMAIN m \cup {day_key(c)} |->
        IF x = day_key(c)
        THEN [added |-> total_lines_added(c), deleted |-> total_lines_deleted(c)]
        ELSE m[x]]

TotalLinesByDayCollector_process(m, c) ==
    LET e == or_insert(m, day_key(c), [added |-> 0, deleted |-> 0])
    IN  [e EXCEPT ![day_key(c)] =
            [added |-> @.added + total_lines_added(c),
             deleted |-> @.deleted + total_lines_deleted(c)]]

TotalLinesByDayCollector_rows(m, order) ==
    [i \in 1..Len(order) |->
        [key |-> order[i], lines_added |-> m[order[i]].added,
         lines_deleted |-> m[order[i]].deleted]]

TotalFilesByDayCollector_process(m, c) ==
    LET e == or_insert(m, day_key(c),
                       [added |-> 0, modified |-> 0, deleted |-> 0, renamed |-> 0])
    IN  [e EXCEPT ![day_key(c)] =
            [added |-> @.added + total_files_added(c),
             deleted |-> @.deleted + total_files_deleted(c),
             modified |-> @.modified + total_files_modified(c),
             renamed |-> @.renamed + total_files_renamed(c)]]

TotalFilesByDayCollector_rows(m, order) ==
    [i \in 1..Len(order) |->
        [key |-> order[i], files_added |-> m[order[i]].added,
         files_deleted |-> m[order[i]].deleted,
         files_modified |-> m[order[i]].modified,
         files_renamed |-> m[order[i]].renamed]]

----------------------------------------------------------------------------
\* MessageStatsCollector

MessageStatsCollector_default ==
    [count |-> 0, total_message_lines |-> 0, total_message_size |-> 0,
     message_stats |->
        [max_size |-> 0, max_lines |-> 0, min_size |-> 0, min_lines |-> 0,
         avg_size |-> 0, avg_lines |-> 0]]

\* if value > max { max = value }
keep_max(value, stored) == IF value > stored THEN value ELSE stored

\* faulty variant: a stored 0 counts as "no minimum yet"
keep_min_unset(value, stored) == IF stored = 0 \/ value <= stored THEN value ELSE stored

\* if value <= min { min = value }
keep_min(value, stored) == IF value <= stored THEN value ELSE stored

\* faulty variant: the average is rounded to the nearest integer
average_rounded(total, count) == (total + count \div 2) \div count

\* total / count on i32
average(total, count) == total \div count

MessageStatsCollector_process(s, c) ==
    LET count == s.count + 1
        lines == s.total_message_lines + total_message_lines(c)
        size  == s.total_message_size + total_message_size(c)
        ms    == s.message_stats
    IN  [count |-> count,
         total_message_lines |-> lines,
         total_message_size |-> size,
         message_stats |->
            [max_size |-> keep_max(total_message_size(c), ms.max_size),
             max_lines |-> keep_max(total_message_lines(c), ms.max_lines),
             min_size |-> keep_min(total_message_size(c), ms.min_size),
             min_lines |-> keep_min(total_message_lines(c), ms.min_lines),
             avg_size |-> average(size, count),
             avg_lines |-> average(lines, count)]]

\* the rows MessageStatsCollector::update pushes
MessageStatsCollector_rows(s) ==
    << SummaryViewModel("Total size of all commit messages",
                        ByteSize_to_string(s.total_message_size)),
       SummaryViewModel("Total number of lines_collection across all commit messages",
                        to_string(s.total_message_lines)),
       SummaryViewModel("Max number of lines_collection in a commit message",
                        to_string(s.message_stats.max_lines)),
       SummaryViewModel("Max size of a commit message",
                        ByteSize_to_string(s.message_stats.max_size)),
       SummaryViewModel("Avg number of lines_collection in a commit message",
                        to_string(s.message_stats.avg_lines)),
       SummaryViewModel("Avg size of a commit message",
                        ByteSize_to_string(s.message_stats.avg_size)) >>

----------------------------------------------------------------------------
\* PunchCardCollector

\* faulty variant: a new bucket starts at 1 and is then incremented
PunchCardCollector_process_from_one(m, c) ==
    LET e == or_insert(m, hour_key_by_weekday(c),
                       [weekday |-> num_days_from_sunday(c.date),
                        hour |-> hour(c.date), commits |-> 1])
    IN  [e EXCEPT ![hour_key_by_weekday(c)].commits = @ + 1]

PunchCardCollector_process(m, c) ==
    LET e == or_insert(m, hour_key_by_weekday(c),
                       [weekday |-> num_days_from_sunday(c.date),
                        hour |-> hour(c.date), commits |-> 0])
    IN  [e EXCEPT ![hour_key_by_weekday(c)].commits = @ + 1]

PunchCardCollector_rows(m, order) ==
    [i \in 1..Len(order) |->
        [weekday |-> m[order[i]].weekday, hour |-> m[order[i]].hour,
         commits |-> m[order[i]].commits]]

----------------------------------------------------------------------------
\* CommitsByFileExtension

RECURSIVE CommitsByFileExtension_loop(_, _)
CommitsByFileExtension_loop(m, ops) ==
    IF ops = <<>> THEN m
    ELSE LET e == or_insert(m, Head(ops).file_extension, 0)
         IN  CommitsByFileExtension_loop(
                 [e EXCEPT ![Head(ops).file_extension] = @ + 1], Tail(ops))

\* faulty variant: an extension is counted once per commit, however many files have it
CommitsByFileExtension_process_once(m, c) ==
    LET exts == { c.file_operations[i].file_extension : i \in 1..Len(c.file_operations) }
    IN  [e \in DOMAIN m \cup exts |->
            (IF e \in DOMAIN m THEN m[e] ELSE 0) + (IF e \in exts THEN 1 ELSE 0)]

CommitsByFileExtension_process(m, c) == CommitsByFileExtension_loop(m, c.file_operations)

CommitsByFileExtension_items(m, order) ==
    [i \in 1..Len(order) |-> [name |-> order[i], value |-> m[order[i]]]]

get_json_viewmodel(m, order) ==
    [summary |-> <<>>, key |-> "files_by_extension",
     data |-> CommitsByFileExtension_items(m, order)]

----------------------------------------------------------------------------
\* update: what each collector writes into the view model

GitStatsViewModel_default ==
    [summary |-> <<>>, total_commits_by_day |-> <<>>, total_lines_by_day |-> <<>>,
     total_files_by_day |-> <<>>, punch_data |-> <<>>]

SummaryStatsCollector_update(vm, s) ==
    [vm EXCEPT !.summary = @ \o SummaryStatsCollector_rows(s)]

\* faulty variant: the rows are left in the map's iteration order
TotalCommitsByDayCollector_update_unsorted(vm, m, order) ==
    [vm EXCEPT !.total_commits_by_day = @ \o TotalCommitsByDayCollector_rows(m, order)]

TotalCommitsByDayCollector_update(vm, m, order) ==
    [vm EXCEPT !.total_commits_by_day =
        sort_by_key(@ \o TotalCommitsByDayCollector_rows(m, order))]

TotalLinesByDayCollector_update(vm, m, order) ==
    [vm EXCEPT !.total_lines_by_day =
        sort_by_key(@ \o TotalLinesByDayCollector_rows(m, order))]

TotalFilesByDayCollector_update(vm, m, order) ==
    [vm EXCEPT !.total_files_by_day =
        sort_by_key(@ \o TotalFilesByDayCollector_rows(m, order))]

MessageStatsCollector_update(vm, s) ==
    [vm EXCEPT !.summary = @ \o MessageStatsCollector_rows(s)]

PunchCardCollector_update(vm, m, order) ==
    [vm EXCEPT !.punch_data = @ \o PunchCardCollector_rows(m, order)]

----------------------------------------------------------------------------
\* The driver

\* create_stat_collectors()
create_stat_collectors ==
    << "SummaryStatsCollector", "TotalCommitsByDayCollector", "TotalLinesByDayCollector",
       "MessageStatsCollector", "TotalFilesByDayCollector", "PunchCardCollector" >>

Registered(name) == \E i \in DOMAIN registered : registered[i] = name

\* the collector whose update runs next is `name`
NextToUpdate(name) == upd < Len(registered) /\ registered[upd + 1] = name

InitWith(collectors) ==
    /\ registered = collectors
    /\ fed = <<>>
    /\ upd = 0
    /\ summary = SummaryStats_default
    /\ total_commits_by_day = EmptyMap
    /\ total_lines_by_day = EmptyMap
    /\ total_files_by_day = EmptyMap
    /\ message = MessageStatsCollector_default
    /\ punchcard = EmptyMap
    /\ data = EmptyMap
    /\ viewmodel = GitStatsViewModel_default
    /\ exported = [summary |-> <<>>, key |-> "", data |-> <<>>]

\* one pass of the driver's loop: every registered collector processes the commit
ProcessCommit(c) ==
    /\ upd = 0
    /\ Len(fed) < MaxCommits
    /\ fed' = Append(fed, c)
    /\ summary' = IF Registered("SummaryStatsCollector")
                  THEN SummaryStatsCollector_process(summary, c) ELSE summary
    /\ total_commits_by_day' =
            IF Registered("TotalCommitsByDayCollector")
            THEN TotalCommitsByDayCollector_process(total_commits_by_day, c)
            ELSE total_commits_by_day
    /\ total_lines_by_day' =
            IF Registered("TotalLinesByDayCollector")
            THEN TotalLinesByDayCollector_process(total_lines_by_day, c)
            ELSE total_lines_by_day
    /\ total_files_by_day' =
            IF Registered("TotalFilesByDayCollector")
            THEN TotalFilesByDayCollector_process(total_files_by_day, c)
            ELSE total_files_by_day
    /\ message' = IF Registered("MessageStatsCollector")
                  THEN MessageStatsCollector_process(message, c) ELSE message
    /\ punchcard' = IF Registered("PunchCardCollector")
                    THEN PunchCardCollector_process(punchcard, c) ELSE punchcard
    /\ data' = IF Registered("CommitsByFileExtension")
               THEN CommitsByFileExtension_process(data, c) ELSE data
    /\ UNCHANGED <<registered, upd, viewmodel, exported>>

Collectors ==
    <<summary, total_commits_by_day, total_lines_by_day, total_files_by_day,
      message, punchcard, data>>

UpdateSummaryStats ==
    /\ NextToUpdate("SummaryStatsCollector")
    /\ viewmodel' = SummaryStatsCollector_update(viewmodel, summary)
    /\ upd' = upd + 1
    /\ UNCHANGED <<registered, fed, Collectors, exported>>

UpdateTotalCommitsByDay ==
    /\ NextToUpdate("TotalCommitsByDayCollector")
    /\ \E order \in IterationOrders(total_commits_by_day) :
          viewmodel' = TotalCommitsByDayCollector_update(viewmodel, total_commits_by_day, order)
    /\ upd' = upd + 1
    /\ UNCHANGED <<registered, fed, Collectors, exported>>

UpdateTotalLinesByDay ==
    /\ NextToUpdate("TotalLinesByDayCollector")
    /\ \E order \in IterationOrders(total_lines_by_day) :
          viewmodel' = TotalLinesByDayCollector_update(viewmodel, total_lines_by_day, order)
    /\ upd' = upd + 1
    /\ UNCHANGED <<registered, fed, Collectors, exported>>

UpdateTotalFilesByDay ==
    /\ NextToUpdate("TotalFilesByDayCollector")
    /\ \E order \in IterationOrders(total_files_by_day) :
          viewmodel' = TotalFilesByDayCollector_update(viewmodel, total_files_by_day, order)
    /\ upd' = upd + 1
    /\ UNCHANGED <<registered, fed, Collectors, exported>>

UpdateMessageStats ==
    /\ NextToUpdate("MessageStatsCollector")
    /\ viewmodel' = MessageStatsCollector_update(viewmodel, message)
    /\ upd' = upd + 1
    /\ UNCHANGED <<registered, fed, Collectors, exported>>

UpdatePunchCard ==
    /\ NextToUpdate("PunchCardCollector")
    /\ \E order \in IterationOrders(punchcard) :
          viewmodel' = PunchCardCollector_update(viewmodel, punchcard, order)
    /\ upd' = upd + 1
    /\ UNCHANGED <<registered, fed, Collectors, exported>>

GetJsonViewmodel ==
    /\ Registered("CommitsByFileExtension")
    /\ \E order \in IterationOrders(data) : exported' = get_json_viewmodel(data, order)
    /\ UNCHANGED <<registered, fed, upd, Collectors, viewmodel>>

----------------------------------------------------------------------------
\* Commit streams.  Each run varies the fields its collectors read and leaves
\* the others at GitCommit::default().

SummaryCommits ==
    { [DefaultCommit EXCEPT !.author = a, !.date = d, !.line_stats = l] :
        a \in Authors, d \in {Day9, Day10}, l \in LineStatsChoices }

DayCommits ==
    { [DefaultCommit EXCEPT !.date = d, !.line_stats = v[1], !.file_operations = v[2]] :
        d \in {Day9Late, Day10, Feb1},
        v \in { << <<LineStat(10, 0)>>,
                   <<FileOperation("a.rs", ExtRs, "Modified"),
                     FileOperation("b.rs", ExtRs, "Added")>> >>,
                << <<LineStat(5, 2), LineStat(0, 3)>>,
                   <<FileOperation("b.md", ExtMd, "Deleted"),
                     FileOperation("c.rs", ExtRs, "Renamed")>> >> } }

MessageCommits == { [DefaultCommit EXCEPT !.message = m] : m \in Messages }

PunchCommits == { [DefaultCommit EXCEPT !.date = d] : d \in Dates }

ExtensionCommits ==
    { [DefaultCommit EXCEPT !.file_operations = f] : f \in FileOperationsChoices }

\* the end-to-end scenario: Alice, Bob and Carl
Alice ==
    [author |-> <<"A", "l", "i", "c", "e">>, date |-> Day9, message |-> <<"a">>,
     line_stats |-> <<LineStat(10, 0)>>,
     file_operations |-> <<FileOperation("a.rs", ExtRs, "Added")>>]

Bob ==
    [author |-> <<"B", "o", "b">>, date |-> Day10, message |-> <<"a", "\n", "b", "c", "d">>,
     line_stats |-> <<LineStat(5, 2)>>,
     file_operations |-> <<FileOperation("a.rs", ExtRs, "Modified"),
                           FileOperation("b.rs", ExtRs, "Added")>>]

Carl ==
    [author |-> <<"C", "a", "r", "l">>, date |-> Day16, message |-> <<"a", "b", "\n">>,
     line_stats |-> <<LineStat(0, 3)>>,
     file_operations |-> <<FileOperation("b.rs", ExtRs, "Deleted")>>]

ScenarioCommits == {Alice, Bob, Carl, DefaultCommit}

----------------------------------------------------------------------------
\* Specifications

\* the whole pipeline of create_stat_collectors
FeedPipeline == \E c \in ScenarioCommits : ProcessCommit(c)

Init == InitWith(create_stat_collectors)

Next ==
    \/ FeedPipeline
    \/ UpdateSummaryStats
    \/ UpdateTotalCommitsByDay
    \/ UpdateTotalLinesByDay
    \/ UpdateMessageStats
    \/ UpdateTotalFilesByDay
    \/ UpdatePunchCard

Spec == Init /\ [][Next]_vars

\* SummaryStatsCollector alone, as its unit tests run it
FeedSummary == \E c \in SummaryCommits : ProcessCommit(c)

InitSummary == InitWith(<<"SummaryStatsCollector">>)

NextSummary == FeedSummary \/ UpdateSummaryStats

SpecSummary == InitSummary /\ [][NextSummary]_vars

\* the summary and the three day-keyed collectors on the same stream
FeedDays == \E c \in DayCommits : ProcessCommit(c)

InitDays ==
    InitWith(<< "SummaryStatsCollector", "TotalCommitsByDayCollector",
                "TotalLinesByDayCollector", "TotalFilesByDayCollector" >>)

NextDays ==
    \/ FeedDays
    \/ UpdateSummaryStats
    \/ UpdateTotalCommitsByDay
    \/ UpdateTotalLinesByDay
    \/ UpdateTotalFilesByDay

SpecDays == InitDays /\ [][NextDays]_vars

\* MessageStatsCollector alone
FeedMessages == \E c \in MessageCommits : ProcessCommit(c)

InitMessages == InitWith(<<"MessageStatsCollector">>)

NextMessages == FeedMessages \/ UpdateMessageStats

SpecMessages == InitMessages /\ [][NextMessages]_vars

\* PunchCardCollector alone
FeedPunchCard == \E c \in PunchCommits : ProcessCommit(c)

InitPunchCard == InitWith(<<"PunchCardCollector">>)

NextPunchCard == FeedPunchCard \/ UpdatePunchCard

SpecPunchCard == InitPunchCard /\ [][NextPunchCard]_vars

\* CommitsByFileExtension alone, with its JSON export
FeedExtensions == \E c \in ExtensionCommits : ProcessCommit(c)

InitExtensions == InitWith(<<"CommitsByFileExtension">>)

NextExtensions == FeedExtensions \/ GetJsonViewmodel

SpecExtensions == InitExtensions /\ [][NextExtensions]_vars

----------------------------------------------------------------------------
\* Vocabulary of the properties

\* the stream supplied in another order
Permute(s, p) == [i \in 1..Len(s) |-> s[p[i]]]

Orders(s) == Permutations(1..Len(s))

\* a collector's state after processing a whole stream from `start`
RECURSIVE RunSummary(_, _)
RunSummary(s, stream) ==
    IF stream = <<>> THEN s
    ELSE RunSummary(SummaryStatsCollector_process(s, Head(stream)), Tail(stream))

RECURSIVE RunCommitsByDay(_, _)
RunCommitsByDay(m, stream) ==
    IF stream = <<>> THEN m
    ELSE RunCommitsByDay(TotalCommitsByDayCollector_process(m, Head(stream)), Tail(stream))

RECURSIVE RunLinesByDay(_, _)
RunLinesByDay(m, stream) ==
    IF stream = <<>> THEN m
    ELSE RunLinesByDay(TotalLinesByDayCollector_process(m, Head(stream)), Tail(stream))

RECURSIVE RunFilesByDay(_, _)
RunFilesByDay(m, stream) ==
    IF stream = <<>> THEN m
    ELSE RunFilesByDay(TotalFilesByDayCollector_process(m, Head(stream)), Tail(stream))

FedLinesAdded == SumSeq([i \in 1..Len(fed) |-> total_lines_added(fed[i])])
FedLinesDeleted == SumSeq([i \in 1..Len(fed) |-> total_lines_deleted(fed[i])])
FedFilesAdded == SumSeq([i \in 1..Len(fed) |-> total_files_added(fed[i])])
FedFilesModified == SumSeq([i \in 1..Len(fed) |-> total_files_modified(fed[i])])
FedFilesDeleted == SumSeq([i \in 1..Len(fed) |-> total_files_deleted(fed[i])])
FedFilesRenamed == SumSeq([i \in 1..Len(fed) |-> total_files_renamed(fed[i])])
FedMessageSize == SumSeq([i \in 1..Len(fed) |-> total_message_size(fed[i])])
FedMessageLines == SumSeq([i \in 1..Len(fed) |-> total_message_lines(fed[i])])

FedDayKeys == { day_key(fed[i]) : i \in 1..Len(fed) }

FedOn(k) == { i \in 1..Len(fed) : day_key(fed[i]) = k }

RowKeys(rows) == { rows[i].key : i \in 1..Len(rows) }

Ascending(rows) == \A i \in 1..Len(rows) - 1 : StrLess(rows[i].key, rows[i + 1].key)

\* the greatest element of a set of naturals, 0 for the empty set
MaxOf(S) == IF S = {} THEN 0 ELSE CHOOSE x \in S : \A y \in S : y <= x

----------------------------------------------------------------------------
\* C1: after process has run on a non-empty stream, first_committer is the
\* author of the first commit supplied and date_first_commit is that commit's
\* date string, whatever the later commits are.
C1_FirstCommitFields ==
    Len(fed) > 0 =>
        /\ summary.first_committer = fed[1].author
        /\ summary.date_first_commit = date_to_string(fed[1].date)

\* C2: commit_count equals the number of commits processed; equal commits are
\* counted each time.
C2_CommitCount == summary.commit_count = Len(fed)

C2_Witness ==
    /\ Len(fed) = 3
    /\ fed[1] = fed[2]
    /\ summary.commit_count = 3

\* C3: total_lines_added and total_lines_deleted are the sums of the commits'
\* own totals, and every order of supplying the same commits gives the same
\* totals.
C3_TotalLines ==
    /\ summary.total_lines_added = FedLinesAdded
    /\ summary.total_lines_deleted = FedLinesDeleted
    /\ \A p \in Orders(fed) :
          LET other == RunSummary(SummaryStats_default, Permute(fed, p))
          IN  /\ other.total_lines_added = summary.total_lines_added
              /\ other.total_lines_deleted = summary.total_lines_deleted

\* two commits with lines, whose other order reports another first committer
C3_Witness ==
    /\ Len(fed) = 2
    /\ summary.total_lines_added = 15
    /\ summary.total_lines_deleted = 5
    /\ \E p \in Orders(fed) :
          RunSummary(SummaryStats_default, Permute(fed, p)).first_committer
              # summary.first_committer

\* C4: once a day-keyed collector has written its rows, the rows summed over
\* all days give the flat totals of the same stream: commits per day sum to
\* commit_count, lines per day to the summary's line totals, files per day to
\* the sums of the commits' file totals.
C4_DayRowsSumToTotals ==
    LET commits == viewmodel.total_commits_by_day
        lines   == viewmodel.total_lines_by_day
        files   == viewmodel.total_files_by_day
    IN  /\ upd >= 2 =>
              SumSeq([i \in 1..Len(commits) |-> commits[i].value]) = summary.commit_count
        /\ upd >= 3 =>
              /\ SumSeq([i \in 1..Len(lines) |-> lines[i].lines_added])
                    = summary.total_lines_added
              /\ SumSeq([i \in 1..Len(lines) |-> lines[i].lines_deleted])
                    = summary.total_lines_deleted
        /\ upd >= 4 =>
              /\ SumSeq([i \in 1..Len(files) |-> files[i].files_added]) = FedFilesAdded
              /\ SumSeq([i \in 1..Len(files) |-> files[i].files_modified]) = FedFilesModified
              /\ SumSeq([i \in 1..Len(files) |-> files[i].files_deleted]) = FedFilesDeleted
              /\ SumSeq([i \in 1..Len(files) |-> files[i].files_renamed]) = FedFilesRenamed

\* three commits on two days, all four updates done
C4_Witness ==
    /\ upd = 4
    /\ Len(fed) = 3
    /\ Len(viewmodel.total_lines_by_day) = 2
    /\ Len(viewmodel.total_files_by_day) = 2
    /\ summary.total_lines_added = 25
    /\ FedFilesAdded = 2 /\ FedFilesRenamed = 1

\* C5: the rows a day-keyed collector writes into an empty report are one row
\* per day key seen, in ascending order of the key, and they are the same rows
\* for every order of supplying the commits and every iteration order of the map.
C5_DayRowsSorted ==
    LET commits == viewmodel.total_commits_by_day
        lines   == viewmodel.total_lines_by_day
        files   == viewmodel.total_files_by_day
    IN  /\ upd >= 2 =>
              /\ Len(commits) = Cardinality(FedDayKeys)
              /\ RowKeys(commits) = FedDayKeys
              /\ Ascending(commits)
              /\ \A i \in 1..Len(commits) :
                    commits[i].value = Cardinality(FedOn(commits[i].key))
              /\ \A p \in Orders(fed) :
                    LET m == RunCommitsByDay(EmptyMap, Permute(fed, p))
                    IN  \A order \in IterationOrders(m) :
                           TotalCommitsByDayCollector_update(
                               GitStatsViewModel_default, m, order).total_commits_by_day
                               = commits
        /\ upd >= 3 =>
              /\ Len(lines) = Cardinality(FedDayKeys)
              /\ RowKeys(lines) = FedDayKeys
              /\ Ascending(lines)
              /\ \A p \in Orders(fed) :
                    LET m == RunLinesByDay(EmptyMap, Permute(fed, p))
                    IN  \A order \in IterationOrders(m) :
                           TotalLinesByDayCollector_update(
                               GitStatsViewModel_default, m, order).total_lines_by_day
                               = lines
        /\ upd >= 4 =>
              /\ Len(files) = Cardinality(FedDayKeys)
              /\ RowKeys(files) = FedDayKeys
              /\ Ascending(files)
              /\ \A p \in Orders(fed) :
                    LET m == RunFilesByDay(EmptyMap, Permute(fed, p))
                    IN  \A order \in IterationOrders(m) :
                           TotalFilesByDayCollector_update(
                               GitStatsViewModel_default, m, order).total_files_by_day
                               = files

\* commits supplied latest day first, two of them on the same day
C5_Witness ==
    /\ upd = 4
    /\ Len(fed) = 3
    /\ fed[1].date = Feb1 /\ fed[2].date = Day9Late /\ fed[3].date = Feb1
    /\ Len(viewmodel.total_commits_by_day) = 2
    /\ viewmodel.total_commits_by_day[2].value = 2

\* C6: the rows PunchCardCollector writes are one row per (weekday, hour)
\* bucket that received a commit, and their commits sum to the number of
\* commits processed.
C6_PunchCardSum ==
    LET rows  == viewmodel.punch_data
        cells == { <<num_days_from_sunday(fed[i].date), hour(fed[i].date)>> :
                     i \in 1..Len(fed) }
    IN  upd = 1 =>
           /\ SumSeq([i \in 1..Len(rows) |-> rows[i].commits]) = Len(fed)
           /\ Len(rows) = Cardinality(cells)
           /\ { <<rows[i].weekday, rows[i].hour>> : i \in 1..Len(rows) } = cells
           /\ \A i \in 1..Len(rows) :
                 rows[i].commits =
                    Cardinality({ j \in 1..Len(fed) :
                        /\ num_days_from_sunday(fed[j].date) = rows[i].weekday
                        /\ hour(fed[j].date) = rows[i].hour })

\* commits of two different Mondays at 9 in one bucket, a third at 23 in another
C6_Witness ==
    /\ upd = 1
    /\ Len(fed) = 3
    /\ fed[1].date = Day9 /\ fed[2].date = Day9Late /\ fed[3].date = Day16
    /\ Len(viewmodel.punch_data) = 2

\* C7: the count stored for an extension is the number of file operations with
\* that extension over all processed commits, and an extension has a bucket
\* only if some operation had it; so a commit touching an extension twice adds
\* 2 and a commit without file operations changes nothing.
C7_ExtensionCounts ==
    LET touches(e) ==
            SumSeq([i \in 1..Len(fed) |->
                Cardinality({ j \in 1..Len(fed[i].file_operations) :
                    fed[i].file_operations[j].file_extension = e })])
        touched ==
            UNION { { fed[i].file_operations[j].file_extension :
                        j \in 1..Len(fed[i].file_operations) } : i \in 1..Len(fed) }
    IN  /\ DOMAIN data = touched
        /\ \A e \in DOMAIN data : data[e] = touches(e)

\* a commit touching rs once, one touching it twice, one touching nothing
C7_Witness ==
    /\ Len(fed) = 3
    /\ Len(fed[1].file_operations) = 1
    /\ Len(fed[2].file_operations) = 2
    /\ fed[2].file_operations[1].file_extension = fed[2].file_operations[2].file_extension
    /\ fed[3].file_operations = <<>>
    /\ DOMAIN data = {ExtRs}
    /\ data[ExtRs] = 3

\* C8: after every process call avg_size is the running sum of the message
\* sizes divided (integer division) by the number of commits processed, and
\* avg_lines the running sum of the line counts divided by that number, which
\* is at least 1 when the division is made.
C8_RunningAverage ==
    /\ message.count = Len(fed)
    /\ message.total_message_size = FedMessageSize
    /\ message.total_message_lines = FedMessageLines
    /\ Len(fed) > 0 =>
          /\ message.message_stats.avg_size = FedMessageSize \div Len(fed)
          /\ message.message_stats.avg_lines = FedMessageLines \div Len(fed)

\* an average that the division truncates
C8_Witness ==
    /\ Len(fed) = 3
    /\ message.total_message_size = 8
    /\ message.message_stats.avg_size = 2
    /\ message.total_message_lines = 5
    /\ message.message_stats.avg_lines = 1

\* C9 as claimed: update writes six summary rows, and only update writes rows.
C9_SixSummaryRows ==
    /\ upd = 0 => viewmodel = GitStatsViewModel_default
    /\ upd = 1 => Len(viewmodel.summary) = 6

\* C9 as amended: SummaryStatsCollector::update writes five summary rows (first
\* committer, date of first commit, commit count, lines added, lines deleted),
\* and no process call writes to the report.
C9_FiveSummaryRows ==
    /\ upd = 0 => viewmodel = GitStatsViewModel_default
    /\ upd = 1 =>
          /\ Len(viewmodel.summary) = 5
          /\ [i \in 1..5 |-> viewmodel.summary[i].name] =
                << "First committer", "Date of first commit",
                   "Number of commits_collection", "Total lines_collection added",
                   "Total lines_collection deleted" >>
          /\ viewmodel.summary[3].value = to_string(Len(fed))
          /\ viewmodel.summary[4].value = to_string(FedLinesAdded)
          /\ viewmodel.summary[5].value = to_string(FedLinesDeleted)

\* rows written after two commits were processed
C9_Witness ==
    /\ upd = 1
    /\ Len(fed) = 2
    /\ Len(viewmodel.summary) = 5
    /\ viewmodel.summary[4].value = <<"1", "5">>

\* C10: when every processed message has a positive size and a positive line
\* count, min_size and min_lines are still the initial 0, below the least size
\* and line count processed, while max_size and max_lines are the greatest.
C10_MinStaysZero ==
    LET sizes == { total_message_size(fed[i]) : i \in 1..Len(fed) }
        lines == { total_message_lines(fed[i]) : i \in 1..Len(fed) }
    IN  (\A i \in 1..Len(fed) :
            total_message_size(fed[i]) > 0 /\ total_message_lines(fed[i]) > 0) =>
           /\ message.message_stats.min_size = 0
           /\ message.message_stats.min_lines = 0
           /\ message.message_stats.max_size = MaxOf(sizes)
           /\ message.message_stats.max_lines = MaxOf(lines)

\* messages of sizes 3 and 5: the least size is 3, min_size is 0
C10_Witness ==
    /\ Len(fed) = 2
    /\ total_message_size(fed[1]) = 5
    /\ total_message_size(fed[2]) = 3
    /\ message.message_stats.min_size = 0
    /\ message.message_stats.max_size = 5
    /\ message.message_stats.max_lines = 2

====
